---------------------------- MODULE Spec2Model ----------------------------
(***************************************************************************)
(* A model of chaz (src/src/main.rs): the backward, paginated scan of a    *)
(* room's history (get_context), the per-sender rate limiter (rate_limit)  *)
(* and the conversational text handler that uses both.                     *)
(*                                                                         *)
(* Four specifications share the module:                                   *)
(*   SpecCtx    one get_context pass over a room history drawn at Init;    *)
(*   Spec       concurrently running text handler tasks over the           *)
(*              process-wide rate-counter map and the two mutexes;         *)
(*   SpecCmd    text, `send` and `rename` events handled one at a time;    *)
(*   SpecClean  clean_summary_response on a response drawn at Init.        *)
(***************************************************************************)
EXTENDS Integers, Sequences, FiniteSets, TLC

VARIABLES
    history,          \* the room's events as the server delivers them, newest first
    cuts,             \* page boundaries: a page ends after position c for c in cuts
    ctx,              \* locals of the running get_context pass
    result,           \* what get_context returned (<< >> until it returns)
    config,           \* GLOBAL_CONFIG: message_limit and room_size_limit
    config_lock,      \* holder of the GLOBAL_CONFIG mutex (0: free)
    members,          \* active member count of each room
    GLOBAL_MESSAGES,  \* the rate-counter map, sender -> count
    lock,             \* holder of the GLOBAL_MESSAGES mutex (0: free)
    task,             \* locals of each event task
    rlog,             \* per sender, the rate_limit calls that returned, in order
    events,           \* number of events dispatched so far
    response,         \* the model response given to clean_summary_response
    max_length,       \* its max_length argument
    cleaned           \* what it returned (<< >> until it returns)

vars == <<history, cuts, ctx, result, config, config_lock, members,
          GLOBAL_MESSAGES, lock, task, rlog, events, response, max_length, cleaned>>

ctxVars == <<history, cuts, ctx, result>>
sysVars == <<config, config_lock, members, GLOBAL_MESSAGES, lock, task, rlog, events>>
cleanVars == <<response, max_length, cleaned>>

---------------------------------------------------------------------------
(* Bounds *)

\* longest room history a get_context pass is run on
MaxLen == 3

---------------------------------------------------------------------------
(* Option<T>: None is the empty sequence, Some(x) the one-element one *)

None == << >>
Some(x) == <<x>>
IsSome(o) == Len(o) = 1
IsNone(o) == Len(o) = 0
UnwrapOr(o, d) == IF IsSome(o) THEN o[1] ELSE d

---------------------------------------------------------------------------
(* Strings are sequences of characters *)

Bot == "@chaz"
User == "@user"

\* the message bodies histories are built from
Chars ==
    [b \in {"hi", ".clear", ".lurk", ".nolurk", ".model a", ".model b",
            ".model x", ".model", "pic"} |->
      CASE b = "hi"       -> <<"h", "i">>
        [] b = ".clear"   -> <<".", "c", "l", "e", "a", "r">>
        [] b = ".lurk"    -> <<".", "l", "u", "r", "k">>
        [] b = ".nolurk"  -> <<".", "n", "o", "l", "u", "r", "k">>
        [] b = ".model a" -> <<".", "m", "o", "d", "e", "l", " ", "a">>
        [] b = ".model b" -> <<".", "m", "o", "d", "e", "l", " ", "b">>
        [] b = ".model x" -> <<".", "m", "o", "d", "e", "l", " ", "x">>
        [] b = ".model"   -> <<".", "m", "o", "d", "e", "l">>
        [] b = "pic"      -> <<"p", "i", "c">>]

\* str::starts_with
StartsWith(s, p) == Len(s) >= Len(p) /\ SubSeq(s, 1, Len(p)) = p

\* str::split_whitespace: the maximal runs of non-blank characters
RECURSIVE SplitFrom(_, _, _)
SplitFrom(s, i, cur) ==
    IF i > Len(s) THEN (IF cur = << >> THEN << >> ELSE <<cur>>)
    ELSE IF s[i] = " "
         THEN (IF cur = << >> THEN << >> ELSE <<cur>>) \o SplitFrom(s, i + 1, << >>)
         ELSE SplitFrom(s, i + 1, Append(cur, s[i]))

split_whitespace(s) == SplitFrom(s, 1, << >>)

\* Iterator::nth(1)
Nth1(tokens) == IF Len(tokens) >= 2 THEN Some(tokens[2]) ELSE None

\* headjack's is_command: a leading control character, doubled to escape it
is_command(s) == StartsWith(s, <<".">>) /\ ~StartsWith(s, <<".", ".">>)

\* get_backend().list_models()
list_models == {<<"a">>, <<"b">>}

RECURSIVE Reverse(_)
Reverse(s) == IF s = << >> THEN << >> ELSE Append(Reverse(Tail(s)), Head(s))

---------------------------------------------------------------------------
(* get_context: the scan of one event *)

\* the accumulators of get_context when the pass starts
CtxLocals ==
    [messages |-> << >>, model_response |-> None, lurk |-> None,
     media |-> << >>, brk |-> FALSE]

\* messages.push(format!(label, body)); src is the position of the event the
\* line was rendered from
PushLine(acc, label, ev, i) ==
    [acc EXCEPT !.messages = Append(@, [label |-> label, body |-> ev.body, src |-> i])]

InsertFrontAppends(media, x) == Append(media, x)

\* media.insert(0, x)
InsertFront(media, x) == <<x>> \o media

\* MessageType::File and MessageType::Image, once get_media_file returned
ScanMedia(acc, label, ev, i) ==
    [PushLine(acc, label, ev, i) EXCEPT !.media = InsertFront(@, [src |-> i])]

ScanNoticeKeepsOwn(acc, ev, i) == PushLine(acc, "USER sent a notice: ", ev, i)

\* MessageType::Notice
ScanNotice(acc, ev, i) ==
    IF ev.sender # Bot THEN PushLine(acc, "USER sent a notice: ", ev, i) ELSE acc

ModelKeepsLast(acc, body) ==
    LET model == Nth1(split_whitespace(body))
    IN  IF IsSome(model) /\ model[1] \in list_models
        THEN [acc EXCEPT !.model_response = Some(model[1])]
        ELSE acc

\* the body of the `.model` branch: entered only while model_response is None
SetModel(acc, body) ==
    LET model == Nth1(split_whitespace(body))
    IN  IF IsSome(model)
        THEN IF model[1] \in list_models
             THEN [acc EXCEPT !.model_response = Some(model[1])]
             ELSE acc
        ELSE acc

ModelGuardAlways(acc) == TRUE

\* `&& model_response.is_none()`
ModelGuard(acc) == IsNone(acc.model_response)

NoLurkFirstWins(acc) == IF IsNone(acc.lurk) THEN [acc EXCEPT !.lurk = Some(FALSE)] ELSE acc

\* lurk = Some(false)
SetNoLurk(acc) == [acc EXCEPT !.lurk = Some(FALSE)]

\* lurk = Some(true), under `&& lurk.is_none()`
SetLurk(acc) == [acc EXCEPT !.lurk = Some(TRUE)]

ClearContinues(acc) == acc

\* break 'outer
Clear(acc) == [acc EXCEPT !.brk = TRUE]

\* the command arm of MessageType::Text
ScanCommand(acc, body) ==
    IF StartsWith(body, Chars[".model"]) /\ ModelGuard(acc)
    THEN SetModel(acc, body)
    ELSE IF StartsWith(body, Chars[".nolurk"])
    THEN SetNoLurk(acc)
    ELSE IF StartsWith(body, Chars[".lurk"]) /\ IsNone(acc.lurk)
    THEN SetLurk(acc)
    ELSE IF StartsWith(body, Chars[".clear"])
    THEN Clear(acc)
    ELSE acc

ScanPlainIgnoresLurk(acc, ev, i) ==
    IF ev.sender = Bot
    THEN PushLine(acc, "ASSISTANT: ", ev, i)
    ELSE PushLine(acc, "USER: ", ev, i)

\* the non-command arm of MessageType::Text
ScanPlain(acc, ev, i) ==
    IF ~UnwrapOr(acc.lurk, FALSE)
    THEN IF ev.sender = Bot
         THEN PushLine(acc, "ASSISTANT: ", ev, i)
         ELSE PushLine(acc, "USER: ", ev, i)
    ELSE acc

\* MessageType::Text
ScanText(acc, ev, i) ==
    IF is_command(Chars[ev.body])
    THEN ScanCommand(acc, Chars[ev.body])
    ELSE ScanPlain(acc, ev, i)

IsMedia(ev) == ev.msgtype \in {"File", "Image"}

\* the match on content.msgtype, for the event at position i
ScanEvent(acc, ev, i) ==
    CASE ev.msgtype = "Audio"  -> PushLine(acc, "USER sent an audio file: ", ev, i)
      [] ev.msgtype = "File"   -> ScanMedia(acc, "USER sent a file: ", ev, i)
      [] ev.msgtype = "Image"  -> ScanMedia(acc, "USER sent an image: ", ev, i)
      [] ev.msgtype = "Notice" -> ScanNotice(acc, ev, i)
      [] ev.msgtype = "Text"   -> ScanText(acc, ev, i)
      [] OTHER                 -> acc

ReturnedNewestFirst(acc) ==
    [context |-> acc.messages, model |-> acc.model_response,
     lurk |-> acc.lurk, media |-> acc.media]

\* messages.into_iter().rev().collect(), with the other three results
Returned(acc) ==
    [context |-> Reverse(acc.messages), model |-> acc.model_response,
     lurk |-> acc.lurk, media |-> acc.media]

---------------------------------------------------------------------------
(* The history collaborator: room.messages(options) *)

\* the last position of the page that starts at position p
PageEnd(h, cs, p) ==
    LET later == {c \in cs : c >= p}
    IN  IF later = {} THEN Len(h)
        ELSE CHOOSE c \in later : \A d \in later : c <= d

\* batch.end: the cursor of the next older page, if there is one
BatchEnd(h, cs, p) ==
    IF PageEnd(h, cs, p) < Len(h) THEN Some(PageEnd(h, cs, p) + 1) ELSE None

FromIgnoresCursor(options) == 1

\* the position a fetch with these options starts at
From(options) == UnwrapOr(options, 1)

---------------------------------------------------------------------------
(* Room histories *)

TextEvent(s, b) == [msgtype |-> "Text", sender |-> s, body |-> b]

HistoryEvents ==
    { TextEvent(User, "hi"), TextEvent(Bot, "hi"),
      TextEvent(User, ".clear"), TextEvent(User, ".lurk"),
      TextEvent(User, ".nolurk"), TextEvent(User, ".model a"),
      TextEvent(User, ".model b"), TextEvent(User, ".model x"),
      TextEvent(User, ".model"),
      [msgtype |-> "Image", sender |-> User, body |-> "pic"],
      [msgtype |-> "File", sender |-> User, body |-> "pic"],
      [msgtype |-> "Notice", sender |-> User, body |-> "hi"],
      [msgtype |-> "Notice", sender |-> Bot, body |-> "hi"],
      [msgtype |-> "Audio", sender |-> User, body |-> "pic"] }

---------------------------------------------------------------------------
(* get_context as a state machine *)

CtxStart ==
    [pc |-> "fetch", options |-> None, pos |-> 1, page_end |-> 0,
     batch_end |-> None, acc |-> CtxLocals, fetches |-> << >>,
     failed |-> << >>]

CtxIdle == [CtxStart EXCEPT !.pc = "idle"]

\* room.messages(options).await
Fetch ==
    /\ ctx.pc = "fetch"
    /\ \/ \* Err: the `while let Ok(batch)` loop ends
          ctx' = [ctx EXCEPT !.pc = "ret",
                             !.failed = Append(@, From(ctx.options))]
       \/ \* Ok(batch)
          ctx' = [ctx EXCEPT !.pc = "scan",
                             !.pos = From(ctx.options),
                             !.page_end = PageEnd(history, cuts, From(ctx.options)),
                             !.batch_end = BatchEnd(history, cuts, From(ctx.options)),
                             !.fetches = Append(@, From(ctx.options))]
    /\ UNCHANGED <<history, cuts, result, sysVars, cleanVars>>

\* one iteration of `for message in batch.chunk`
Scan ==
    /\ ctx.pc = "scan"
    /\ ctx.pos <= ctx.page_end
    /\ LET ev == history[ctx.pos]
           acc == ScanEvent(ctx.acc, ev, ctx.pos)
       IN  \/ ctx' = [ctx EXCEPT !.acc = acc, !.pos = @ + 1,
                                 !.pc = IF acc.brk THEN "ret" ELSE "scan"]
           \/ \* get_media_file(..).await.unwrap() on an Err, or a missing mimetype
              /\ IsMedia(ev)
              /\ ctx' = [ctx EXCEPT !.pc = "panicked"]
    /\ UNCHANGED <<history, cuts, result, sysVars, cleanVars>>

\* `if let Some(token) = batch.end { options = ..from(token) } else { break }`
NextPage ==
    /\ ctx.pc = "scan"
    /\ ctx.pos > ctx.page_end
    /\ ctx' = IF IsSome(ctx.batch_end)
              THEN [ctx EXCEPT !.pc = "fetch", !.options = ctx.batch_end]
              ELSE [ctx EXCEPT !.pc = "ret"]
    /\ UNCHANGED <<history, cuts, result, sysVars, cleanVars>>

\* Ok((messages.into_iter().rev().collect(), model_response, lurk, media))
Return ==
    /\ ctx.pc = "ret"
    /\ ctx' = [ctx EXCEPT !.pc = "done"]
    /\ result' = Some([ok |-> TRUE, val |-> Returned(ctx.acc)])
    /\ UNCHANGED <<history, cuts, sysVars, cleanVars>>

---------------------------------------------------------------------------
(* get_context as one call: every outcome a pass over history h can have *)

\* the scan of positions p..q with every media fetch succeeding, `break 'outer` included
RECURSIVE ScanChunk(_, _, _, _)
ScanChunk(acc, h, p, q) ==
    IF p > q \/ acc.brk THEN acc
    ELSE ScanChunk(ScanEvent(acc, h[p], p), h, p + 1, q)

\* whether the scan of positions p..q reaches a media event
RECURSIVE FetchesMedia(_, _, _, _)
FetchesMedia(acc, h, p, q) ==
    IF p > q \/ acc.brk THEN FALSE
    ELSE IsMedia(h[p]) \/ FetchesMedia(ScanEvent(acc, h[p], p), h, p + 1, q)

RECURSIVE Pass(_, _, _, _)
Pass(h, cs, options, acc) ==
    LET p == From(options)
        q == PageEnd(h, cs, p)
        scanned == ScanChunk(acc, h, p, q)
    IN  \* room.messages fails: the loop ends and what was gathered is returned
        {[panicked |-> FALSE, ok |-> TRUE, fetch_failed |-> TRUE, val |-> Returned(acc)]}
        \cup
        \* a media fetch of this page fails: unwrap panics
        (IF FetchesMedia(acc, h, p, q)
         THEN {[panicked |-> TRUE, ok |-> FALSE, fetch_failed |-> FALSE,
                val |-> Returned(CtxLocals)]}
         ELSE {})
        \cup
        (IF scanned.brk \/ IsNone(BatchEnd(h, cs, p))
         THEN {[panicked |-> FALSE, ok |-> TRUE, fetch_failed |-> FALSE,
                val |-> Returned(scanned)]}
         ELSE Pass(h, cs, BatchEnd(h, cs, p), scanned))

\* longest history a handler's get_context call is run on
MaxHandlerLen == 2

\* what the handlers read of a get_context outcome
GetContextOutcomes ==
    UNION { UNION { { [panicked |-> o.panicked, ok |-> o.ok,
                       fetch_failed |-> o.fetch_failed, lurk |-> o.val.lurk] :
                      o \in Pass(h, cs, None, CtxLocals) } :
                    cs \in SUBSET (1..(Len(h) - 1)) } :
            h \in UNION { [1..n -> HistoryEvents] : n \in 0..MaxHandlerLen } }

---------------------------------------------------------------------------
(* The process: configuration, rooms, senders, tasks *)

Tasks == {1, 2}
Senders == {Bot, User}
Rooms == {"!small", "!big"}

\* the values of message_limit and room_size_limit the bot is started with
MessageLimits == {None, Some(0), Some(1), Some(2)}
RoomSizeLimits == {None, Some(2)}

\* dispatched events per run
MaxEvents == 3

\* HashMap::get with the default 0 of a sender that has no entry
Count(m, s) == IF s \in DOMAIN m THEN m[s] ELSE 0

EntryResets(m, s) == [x \in DOMAIN m \cup {s} |-> IF x = s THEN 0 ELSE m[x]]

\* the entry taken by get_mut, inserted with 0 when the sender has none
Entry(m, s) == IF s \in DOMAIN m THEN m ELSE [x \in DOMAIN m \cup {s} |-> IF x = s THEN 0 ELSE m[x]]

RoomTooBigNever(room_size, limit) == FALSE

RoomTooBigAtLimit(room_size, limit) == IF IsSome(limit) THEN room_size >= limit[1] ELSE FALSE

\* room_size as u64 > room_size_limit, the limit defaulting to u64::MAX
RoomTooBig(room_size, limit) == IF IsSome(limit) THEN room_size > limit[1] ELSE FALSE

BelowLimitInclusive(count, limit) == IF IsNone(limit) THEN TRUE ELSE count <= limit[1]

\* *count < message_limit, the limit defaulting to u64::MAX (which no count of
\* a bounded run reaches)
BelowLimit(count, limit) == IF IsNone(limit) THEN TRUE ELSE count < limit[1]

CanLockAlways(t) == TRUE

\* GLOBAL_MESSAGES.lock(): the mutex is free
CanLock(t) == lock = 0

\* the handlers an event can reach: the conversational callback and the `send`
\* and `rename` commands
Kinds == {"text", "send", "rename"}

\* title, named, topic and topic_set hold the outcome (TRUE: Ok) of the four
\* calls of rename, None until the call is made
TaskIdle ==
    [pc |-> "idle", kind |-> "text", sender |-> Bot, room |-> "!small",
     room_size |-> 0, throttled |-> None, lurk |-> None, got_context |-> FALSE,
     fetch_failed |-> FALSE, execs |-> 0, exec_errs |-> 0, posts |-> << >>,
     title |-> None, named |-> None, topic |-> None, topic_set |-> None,
     ret |-> "none"]

Finished(t) == task[t].pc \in {"idle", "done", "panicked"}

\* an `unwrap()` on an Err panics: the task unwinds and its locals are dropped;
\* what its rate_limit call returned and what it did to the room and on the
\* backend stays
Panicked(rec) ==
    [TaskIdle EXCEPT !.pc = "panicked", !.kind = rec.kind, !.sender = rec.sender,
                     !.throttled = rec.throttled, !.execs = rec.execs,
                     !.exec_errs = rec.exec_errs, !.posts = rec.posts]

\* an event task ends with this result
Done(rec, ret) == [rec EXCEPT !.pc = "done", !.ret = ret]

LurkGateUnsetLurks(lurk) == ~UnwrapOr(lurk, TRUE)

\* `if !lurk.unwrap_or(false)`
LurkGate(lurk) == ~UnwrapOr(lurk, FALSE)

AfterRateLimitSendUngated(rec, throttled) ==
    LET r == [rec EXCEPT !.throttled = Some(throttled)]
    IN  IF r.kind = "text"
        THEN IF throttled THEN Done(r, "rate limited")
             ELSE IF r.sender = Bot THEN Done(r, "not responding to myself")
             ELSE [r EXCEPT !.pc = "get_context"]
        ELSE IF r.kind = "send" THEN [r EXCEPT !.pc = "send_get_context"]
        ELSE IF throttled THEN Done(r, "ok")
        ELSE [r EXCEPT !.pc = "rename_get_context"]

\* a handler once its rate_limit call returned `throttled`: the text handler
\* then compares the sender with the bot's own id, `send` and `rename` return
\* Ok(()) when throttled
AfterRateLimit(rec, throttled) ==
    LET r == [rec EXCEPT !.throttled = Some(throttled)]
    IN  IF r.kind = "text"
        THEN IF throttled THEN Done(r, "rate limited")
             ELSE IF r.sender = Bot THEN Done(r, "not responding to myself")
             ELSE [r EXCEPT !.pc = "get_context"]
        ELSE IF throttled THEN Done(r, "ok")
        ELSE IF r.kind = "send" THEN [r EXCEPT !.pc = "send_get_context"]
        ELSE [r EXCEPT !.pc = "rename_get_context"]

\* rate_limit returned: the call is added to the sender's log
Logged(rec, throttled) ==
    [rlog EXCEPT ![rec.sender] =
        Append(@, [over |-> RoomTooBig(members[rec.room], config.room_size_limit),
                   seen_over |-> RoomTooBig(rec.room_size, config.room_size_limit),
                   res |-> throttled])]

\* execute returned Ok: the handler goes on at `next`
Executed(rec, next) == [rec EXCEPT !.pc = next, !.execs = @ + 1]

\* execute returned Err: the handler goes on at `next`
ExecuteFailed(rec, next) ==
    [rec EXCEPT !.pc = next, !.execs = @ + 1, !.exec_errs = @ + 1]

\* room.send(content).await.unwrap() of a handler that then goes on at `next`
Posted(rec, what, next) == [rec EXCEPT !.posts = Append(@, what), !.pc = next]

---------------------------------------------------------------------------
(* The conversational text handler and rate_limit *)

\* a text event that is not a command reaches the registered callback
Dispatch(t, s, r) ==
    /\ Finished(t)
    /\ events < MaxEvents
    /\ events' = events + 1
    /\ task' = [task EXCEPT ![t] = [TaskIdle EXCEPT !.pc = "receipt", !.sender = s,
                                                    !.room = r]]
    /\ UNCHANGED <<config, config_lock, members, GLOBAL_MESSAGES, lock, rlog, ctxVars, cleanVars>>

\* room.send_single_receipt(..).await.unwrap()
Receipt(t) ==
    /\ task[t].pc = "receipt"
    /\ \/ task' = [task EXCEPT ![t].pc = "rl_members"]
       \/ task' = [task EXCEPT ![t] = Panicked(@)]
    /\ UNCHANGED <<config, config_lock, members, GLOBAL_MESSAGES, lock, rlog, events, ctxVars, cleanVars>>

\* room.members(RoomMemberships::ACTIVE).await.unwrap_or(Vec::new()).len()
RLMembers(t) ==
    /\ task[t].pc = "rl_members"
    /\ \/ task' = [task EXCEPT ![t].pc = "rl_message_limit",
                                ![t].room_size = members[task[t].room]]
       \/ task' = [task EXCEPT ![t].pc = "rl_message_limit", ![t].room_size = 0]
    /\ UNCHANGED <<config, config_lock, members, GLOBAL_MESSAGES, lock, rlog, events, ctxVars, cleanVars>>

\* GLOBAL_CONFIG.lock(): the mutex is free
CanLockConfig(t) == config_lock = 0

\* GLOBAL_CONFIG.lock().unwrap() of the two `let` statements that read the limits
RLConfigLock(t) ==
    /\ task[t].pc \in {"rl_message_limit", "rl_room_size_limit"}
    /\ CanLockConfig(t)
    /\ config_lock' = t
    /\ task' = [task EXCEPT ![t].pc = IF @ = "rl_message_limit"
                                      THEN "rl_message_limit_locked"
                                      ELSE "rl_room_size_limit_locked"]
    /\ UNCHANGED <<config, members, GLOBAL_MESSAGES, lock, rlog, events, ctxVars, cleanVars>>

\* .clone().unwrap().message_limit.unwrap_or(..) and the same for
\* room_size_limit: the guard is a temporary, dropped when the statement ends
RLConfigRead(t) ==
    /\ task[t].pc \in {"rl_message_limit_locked", "rl_room_size_limit_locked"}
    /\ config_lock' = 0
    /\ task' = [task EXCEPT ![t].pc = IF @ = "rl_message_limit_locked"
                                      THEN "rl_room_size_limit"
                                      ELSE "rl_lock"]
    /\ UNCHANGED <<config, members, GLOBAL_MESSAGES, lock, rlog, events, ctxVars, cleanVars>>

\* GLOBAL_MESSAGES.lock().unwrap() and the get_mut / insert of the sender's entry
RLLock(t) ==
    /\ task[t].pc = "rl_lock"
    /\ CanLock(t)
    /\ lock' = t
    /\ GLOBAL_MESSAGES' = Entry(GLOBAL_MESSAGES, task[t].sender)
    /\ task' = [task EXCEPT ![t].pc = "rl_check"]
    /\ UNCHANGED <<config, config_lock, members, rlog, events, ctxVars, cleanVars>>

\* `if room_size as u64 > room_size_limit { return true; }`
RLRoomTooBig(t) ==
    /\ task[t].pc = "rl_check"
    /\ RoomTooBig(task[t].room_size, config.room_size_limit)
    /\ lock' = 0
    /\ task' = [task EXCEPT ![t] = AfterRateLimit(@, TRUE)]
    /\ rlog' = Logged(task[t], TRUE)
    /\ UNCHANGED <<config, config_lock, members, GLOBAL_MESSAGES, events, ctxVars, cleanVars>>

\* `if *count < message_limit`, taken
RLBelow(t) ==
    /\ task[t].pc = "rl_check"
    /\ ~RoomTooBig(task[t].room_size, config.room_size_limit)
    /\ BelowLimit(GLOBAL_MESSAGES[task[t].sender], config.message_limit)
    /\ task' = [task EXCEPT ![t].pc = "rl_incr"]
    /\ UNCHANGED <<config, config_lock, members, GLOBAL_MESSAGES, lock, rlog, events, ctxVars, cleanVars>>

RLIncrementSkipsSelf(t) ==
    /\ task[t].pc = "rl_incr"
    /\ GLOBAL_MESSAGES' = [GLOBAL_MESSAGES EXCEPT ![task[t].sender] =
                              IF task[t].sender = Bot THEN @ ELSE @ + 1]
    /\ lock' = 0
    /\ task' = [task EXCEPT ![t] = AfterRateLimit(@, FALSE)]
    /\ rlog' = Logged(task[t], FALSE)
    /\ UNCHANGED <<config, config_lock, members, events, ctxVars, cleanVars>>

\* `*count += 1; return false;`
RLIncrement(t) ==
    /\ task[t].pc = "rl_incr"
    /\ GLOBAL_MESSAGES' = [GLOBAL_MESSAGES EXCEPT ![task[t].sender] = @ + 1]
    /\ lock' = 0
    /\ task' = [task EXCEPT ![t] = AfterRateLimit(@, FALSE)]
    /\ rlog' = Logged(task[t], FALSE)
    /\ UNCHANGED <<config, config_lock, members, events, ctxVars, cleanVars>>

BlockEndKeepsGuard(t) == t

\* the block of `let count = { .. }` ends: the guard `messages` is dropped and
\* the mutex is free again
BlockEnd(t) == 0

\* `if *count < message_limit`, not taken: the block ends with *count
RLOver(t) ==
    /\ task[t].pc = "rl_check"
    /\ ~RoomTooBig(task[t].room_size, config.room_size_limit)
    /\ ~BelowLimit(GLOBAL_MESSAGES[task[t].sender], config.message_limit)
    /\ lock' = BlockEnd(t)
    /\ task' = [task EXCEPT ![t].pc = "rl_notice"]
    /\ UNCHANGED <<config, config_lock, members, GLOBAL_MESSAGES, rlog, events, ctxVars, cleanVars>>

\* format!(".error: you have used up your message limit of {} messages.",
\* message_limit), the limit read with unwrap_or(u64::max_value())
LimitNotice(limit) ==
    ".error: you have used up your message limit of "
        \o (IF IsSome(limit) THEN ToString(limit[1]) ELSE "18446744073709551615")
        \o " messages."

\* room.send(notice_plain(format!(..))).await.unwrap(); true
RLNotice(t) ==
    /\ task[t].pc = "rl_notice"
    /\ \/ /\ task' = [task EXCEPT ![t] =
                        AfterRateLimit([@ EXCEPT !.posts =
                                           Append(@, LimitNotice(config.message_limit))],
                                       TRUE)]
          /\ rlog' = Logged(task[t], TRUE)
       \/ /\ task' = [task EXCEPT ![t] = Panicked(@)]
          /\ UNCHANGED rlog
    /\ UNCHANGED <<config, config_lock, members, GLOBAL_MESSAGES, lock, events, ctxVars, cleanVars>>

\* `else if let Ok((context, model, lurk, media)) = get_context(&room).await`
GetContext(t) ==
    /\ task[t].pc = "get_context"
    /\ \E o \in GetContextOutcomes :
          task' = [task EXCEPT ![t] =
              IF o.panicked THEN Panicked(@)
              ELSE LET r == [@ EXCEPT !.lurk = o.lurk, !.got_context = TRUE,
                                      !.fetch_failed = o.fetch_failed]
                   IN  IF ~o.ok THEN Done(r, "could not get context")
                       ELSE IF LurkGate(o.lurk) THEN [r EXCEPT !.pc = "execute"]
                       ELSE Done(r, "lurking")]
    /\ UNCHANGED <<config, config_lock, members, GLOBAL_MESSAGES, lock, rlog, events, ctxVars, cleanVars>>

AfterExecuteErrSilent(rec) == Done(rec, "error")

\* the `Err(stderr)` arm of the match on execute's result
AfterExecuteErr(rec) == [rec EXCEPT !.pc = "error_notice"]

\* add_role(&context) and match get_backend().execute(&model, context, media):
\* add_role and get_backend lock GLOBAL_CONFIG and drop the guard before they
\* return
Execute(t) ==
    /\ task[t].pc = "execute"
    /\ CanLockConfig(t)
    /\ \/ task' = [task EXCEPT ![t] = Executed(@, "reply")]
       \/ task' = [task EXCEPT ![t] = AfterExecuteErr(ExecuteFailed(@, "execute"))]
    /\ UNCHANGED <<config, config_lock, members, GLOBAL_MESSAGES, lock, rlog, events, ctxVars, cleanVars>>

\* room.send(text_plain(stdout).make_reply_to(..)).await.unwrap()
Reply(t) ==
    /\ task[t].pc = "reply"
    /\ \/ task' = [task EXCEPT ![t] = Done([@ EXCEPT !.posts = Append(@, "reply")], "responded")]
       \/ task' = [task EXCEPT ![t] = Panicked(@)]
    /\ UNCHANGED <<config, config_lock, members, GLOBAL_MESSAGES, lock, rlog, events, ctxVars, cleanVars>>

\* room.send(notice_plain(".error: ..")).await.unwrap()
ErrorNotice(t) ==
    /\ task[t].pc = "error_notice"
    /\ \/ task' = [task EXCEPT ![t] = Done([@ EXCEPT !.posts = Append(@, "error_notice")], "error")]
       \/ task' = [task EXCEPT ![t] = Panicked(@)]
    /\ UNCHANGED <<config, config_lock, members, GLOBAL_MESSAGES, lock, rlog, events, ctxVars, cleanVars>>

---------------------------------------------------------------------------
(* The `send` command *)

\* a `.send` or `.rename` text event reaches the registered command
DispatchCommand(t, k, s, r) ==
    /\ Finished(t)
    /\ events < MaxEvents
    /\ events' = events + 1
    /\ task' = [task EXCEPT ![t] = [TaskIdle EXCEPT !.pc = "rl_members", !.kind = k,
                                                    !.sender = s, !.room = r]]
    /\ UNCHANGED <<config, config_lock, members, GLOBAL_MESSAGES, lock, rlog, ctxVars, cleanVars>>

\* let (_, model, _, _) = get_context(&room).await.unwrap(): the lurk flag is
\* discarded
SendGetContext(t) ==
    /\ task[t].pc = "send_get_context"
    /\ \E o \in GetContextOutcomes :
          task' = [task EXCEPT ![t] =
              IF o.panicked \/ ~o.ok THEN Panicked(@)
              ELSE [@ EXCEPT !.got_context = TRUE, !.pc = "send_execute"]]
    /\ UNCHANGED <<config, config_lock, members, GLOBAL_MESSAGES, lock, rlog, events, ctxVars, cleanVars>>

\* `if let Ok(result) = get_backend().execute(&model, input, Vec::new())`, which
\* has no else branch
SendExecute(t) ==
    /\ task[t].pc = "send_execute"
    /\ CanLockConfig(t)
    /\ \/ task' = [task EXCEPT ![t] = Executed(@, "send_response")]
       \/ task' = [task EXCEPT ![t] = Done(ExecuteFailed(@, "done"), "ok")]
    /\ UNCHANGED <<config, config_lock, members, GLOBAL_MESSAGES, lock, rlog, events, ctxVars, cleanVars>>

\* room.send(notice_plain(".response:\n" + result)).await.unwrap(); Ok(())
SendResponse(t) ==
    /\ task[t].pc = "send_response"
    /\ \/ task' = [task EXCEPT ![t] = Done(Posted(@, "response", "done"), "ok")]
       \/ task' = [task EXCEPT ![t] = Panicked(@)]
    /\ UNCHANGED <<config, config_lock, members, GLOBAL_MESSAGES, lock, rlog, events, ctxVars, cleanVars>>

---------------------------------------------------------------------------
(* The `rename` command *)

\* `if let Ok((context, _, _, _)) = get_context(&room).await`
RenameGetContext(t) ==
    /\ task[t].pc = "rename_get_context"
    /\ \E o \in GetContextOutcomes :
          task' = [task EXCEPT ![t] =
              IF o.panicked THEN Panicked(@)
              ELSE LET r == [@ EXCEPT !.got_context = TRUE]
                   IN  IF o.ok THEN [r EXCEPT !.pc = "title_execute"]
                       ELSE Done(r, "ok")]
    /\ UNCHANGED <<config, config_lock, members, GLOBAL_MESSAGES, lock, rlog, events, ctxVars, cleanVars>>

AfterTitleErrReturns(rec) == Done(rec, "ok")

\* the title's `if let Ok(result) = response` has no else branch: the topic
\* prompt follows
AfterTitleErr(rec) == [rec EXCEPT !.pc = "topic_execute"]

\* let model = get_chat_summary_model();
\* let response = get_backend().execute(&model, title_prompt, Vec::new())
TitleExecute(t) ==
    /\ task[t].pc = "title_execute"
    /\ CanLockConfig(t)
    /\ \/ task' = [task EXCEPT ![t] = Executed([@ EXCEPT !.title = Some(TRUE)], "set_name")]
       \/ task' = [task EXCEPT ![t] =
                     AfterTitleErr(ExecuteFailed([@ EXCEPT !.title = Some(FALSE)],
                                                 "title_execute"))]
    /\ UNCHANGED <<config, config_lock, members, GLOBAL_MESSAGES, lock, rlog, events, ctxVars, cleanVars>>

\* `if room.set_name(result).await.is_err()`
SetName(t) ==
    /\ task[t].pc = "set_name"
    /\ \/ task' = [task EXCEPT ![t].named = Some(TRUE), ![t].pc = "topic_execute"]
       \/ task' = [task EXCEPT ![t].named = Some(FALSE), ![t].pc = "name_notice"]
    /\ UNCHANGED <<config, config_lock, members, GLOBAL_MESSAGES, lock, rlog, events, ctxVars, cleanVars>>

\* room.send(notice ".error: I don't have permission to rename the room")
\* .await.unwrap(); return Ok(())
NameNotice(t) ==
    /\ task[t].pc = "name_notice"
    /\ \/ task' = [task EXCEPT ![t] = Done(Posted(@, "name_notice", "done"), "ok")]
       \/ task' = [task EXCEPT ![t] = Panicked(@)]
    /\ UNCHANGED <<config, config_lock, members, GLOBAL_MESSAGES, lock, rlog, events, ctxVars, cleanVars>>

\* let response = get_backend().execute(&model, topic_prompt, Vec::new()),
\* whose `if let Ok(result) = response` has no else branch
TopicExecute(t) ==
    /\ task[t].pc = "topic_execute"
    /\ CanLockConfig(t)
    /\ \/ task' = [task EXCEPT ![t] = Executed([@ EXCEPT !.topic = Some(TRUE)], "set_topic")]
       \/ task' = [task EXCEPT ![t] =
                     Done(ExecuteFailed([@ EXCEPT !.topic = Some(FALSE)], "done"), "ok")]
    /\ UNCHANGED <<config, config_lock, members, GLOBAL_MESSAGES, lock, rlog, events, ctxVars, cleanVars>>

\* `if room.set_room_topic(&result).await.is_err()`
SetTopic(t) ==
    /\ task[t].pc = "set_topic"
    /\ \/ task' = [task EXCEPT ![t] = Done([@ EXCEPT !.topic_set = Some(TRUE)], "ok")]
       \/ task' = [task EXCEPT ![t].topic_set = Some(FALSE), ![t].pc = "topic_notice"]
    /\ UNCHANGED <<config, config_lock, members, GLOBAL_MESSAGES, lock, rlog, events, ctxVars, cleanVars>>

\* room.send(notice ".error: I don't have permission to set the topic")
\* .await.unwrap()
TopicNotice(t) ==
    /\ task[t].pc = "topic_notice"
    /\ \/ task' = [task EXCEPT ![t] = Done(Posted(@, "topic_notice", "done"), "ok")]
       \/ task' = [task EXCEPT ![t] = Panicked(@)]
    /\ UNCHANGED <<config, config_lock, members, GLOBAL_MESSAGES, lock, rlog, events, ctxVars, cleanVars>>

---------------------------------------------------------------------------
(* clean_summary_response *)

\* longest model response clean_summary_response is run on
MaxResponseLen == 4

Quote == "\""

\* the characters responses are built from
ResponseChars == {"a", "b", Quote}

\* the max_length arguments it is called with
MaxLengths == {None, Some(0), Some(1), Some(2)}

RECURSIVE RunEndAnyChar(_, _)
RunEndAnyChar(s, k) ==
    IF k > Len(s) THEN k
    ELSE IF \E j \in (k + 1)..Len(s) : s[j] = Quote THEN RunEndAnyChar(s, k + 1)
    ELSE k

\* `[^"]*` from position k: the position after the longest run of characters
\* other than the quote
RECURSIVE RunEnd(_, _)
RunEnd(s, k) ==
    IF k > Len(s) THEN k
    ELSE IF s[k] # Quote THEN RunEnd(s, k + 1)
    ELSE k

\* the pattern `"([^"]*)"` tried at position i: the capture group, if it matches
MatchAt(s, i) ==
    IF s[i] = Quote
    THEN LET j == RunEnd(s, i + 1)
         IN  IF j <= Len(s) /\ s[j] = Quote THEN Some(SubSeq(s, i + 1, j - 1)) ELSE None
    ELSE None

\* Regex::captures: the leftmost match
RECURSIVE captures(_, _)
captures(s, i) ==
    IF i > Len(s) THEN None
    ELSE IF IsSome(MatchAt(s, i)) THEN MatchAt(s, i)
    ELSE captures(s, i + 1)

\* response.chars().take(max_length).collect()
Take(s, n) == SubSeq(s, 1, IF n < Len(s) THEN n ELSE Len(s))

clean_summary_response(resp, max) ==
    LET caps == captures(resp, 1)
        r == IF IsSome(caps) THEN caps[1] ELSE resp
    IN  IF IsSome(max) THEN Take(r, max[1]) ELSE r

CleanIdle ==
    /\ response = << >>
    /\ max_length = None
    /\ cleaned = None

\* the call returns
Clean ==
    /\ IsNone(cleaned)
    /\ cleaned' = Some(clean_summary_response(response, max_length))
    /\ UNCHANGED <<response, max_length, ctxVars, sysVars>>

---------------------------------------------------------------------------
(* Specifications *)

SysIdle ==
    /\ config = [message_limit |-> None, room_size_limit |-> None]
    /\ config_lock = 0
    /\ members = [r \in Rooms |-> 0]
    /\ GLOBAL_MESSAGES = << >>
    /\ lock = 0
    /\ task = [t \in Tasks |-> TaskIdle]
    /\ rlog = [s \in Senders |-> << >>]
    /\ events = 0

InitCtx ==
    /\ \E n \in 0..MaxLen :
          /\ history \in [1..n -> HistoryEvents]
          /\ cuts \in SUBSET (1..(n - 1))
    /\ ctx = CtxStart
    /\ result = None
    /\ SysIdle
    /\ CleanIdle

NextCtx == Fetch \/ Scan \/ NextPage \/ Return

SpecCtx == InitCtx /\ [][NextCtx]_vars

Init ==
    /\ history = << >>
    /\ cuts = {}
    /\ ctx = CtxIdle
    /\ result = None
    /\ \E ml \in MessageLimits, rl \in RoomSizeLimits :
          config = [message_limit |-> ml, room_size_limit |-> rl]
    /\ config_lock = 0
    /\ members = [r \in Rooms |-> IF r = "!big" THEN 3 ELSE 2]
    /\ GLOBAL_MESSAGES = << >>
    /\ lock = 0
    /\ task = [t \in Tasks |-> TaskIdle]
    /\ rlog = [s \in Senders |-> << >>]
    /\ events = 0
    /\ CleanIdle

InitClean ==
    /\ history = << >>
    /\ cuts = {}
    /\ ctx = CtxIdle
    /\ result = None
    /\ SysIdle
    /\ \E n \in 0..MaxResponseLen : response \in [1..n -> ResponseChars]
    /\ max_length \in MaxLengths
    /\ cleaned = None

NextClean == Clean

SpecClean == InitClean /\ [][NextClean]_vars

Next ==
    \E t \in Tasks :
        \/ \E s \in Senders, r \in Rooms : Dispatch(t, s, r)
        \/ Receipt(t)
        \/ RLMembers(t)
        \/ RLConfigLock(t)
        \/ RLConfigRead(t)
        \/ RLLock(t)
        \/ RLRoomTooBig(t)
        \/ RLBelow(t)
        \/ RLIncrement(t)
        \/ RLOver(t)
        \/ RLNotice(t)
        \/ GetContext(t)
        \/ Execute(t)
        \/ Reply(t)
        \/ ErrorNotice(t)

Spec == Init /\ [][Next]_vars

\* the tasks of the runs that dispatch every kind of event: the events are
\* handled one after the other
CmdTasks == {1}

NextCmd ==
    \E t \in CmdTasks :
        \/ \E s \in Senders, r \in Rooms : Dispatch(t, s, r)
        \/ \E k \in {"send", "rename"}, s \in Senders, r \in Rooms :
              DispatchCommand(t, k, s, r)
        \/ Receipt(t)
        \/ RLMembers(t)
        \/ RLConfigLock(t)
        \/ RLConfigRead(t)
        \/ RLLock(t)
        \/ RLRoomTooBig(t)
        \/ RLBelow(t)
        \/ RLIncrement(t)
        \/ RLOver(t)
        \/ RLNotice(t)
        \/ GetContext(t)
        \/ Execute(t)
        \/ Reply(t)
        \/ ErrorNotice(t)
        \/ SendGetContext(t)
        \/ SendExecute(t)
        \/ SendResponse(t)
        \/ RenameGetContext(t)
        \/ TitleExecute(t)
        \/ SetName(t)
        \/ NameNotice(t)
        \/ TopicExecute(t)
        \/ SetTopic(t)
        \/ TopicNotice(t)

SpecCmd == Init /\ [][NextCmd]_vars

---------------------------------------------------------------------------
(* Vocabulary of the properties *)

Min(S) == CHOOSE x \in S : \A y \in S : x <= y

IsDirective(ev, name) ==
    /\ ev.msgtype = "Text"
    /\ is_command(Chars[ev.body])
    /\ StartsWith(Chars[ev.body], Chars[name])

\* positions of the clear directives of the history
ClearPositions == {i \in 1..Len(history) : IsDirective(history[i], ".clear")}

\* positions of the events the pass has scanned so far
Scanned == 1..(ctx.pos - 1)

\* the model a `.model` directive names, when the name is one the backend lists
NamesModel(ev) ==
    /\ IsDirective(ev, ".model")
    /\ Len(split_whitespace(Chars[ev.body])) >= 2
    /\ split_whitespace(Chars[ev.body])[2] \in list_models

ValidModelPositions == {i \in Scanned : NamesModel(history[i])}

MediaPositions == {i \in Scanned : history[i].msgtype \in {"Image", "File"}}

Srcs(seq) == {seq[j].src : j \in 1..Len(seq)}

\* strictly greater than the limit, when there is one
Exceeds(n, limit) == IF limit = None THEN FALSE ELSE n > limit[1]

InRateLimit(rec) ==
    rec.pc \in {"rl_message_limit", "rl_message_limit_locked", "rl_room_size_limit",
                "rl_room_size_limit_locked", "rl_lock", "rl_check", "rl_incr",
                "rl_notice"}

Passes(s) == Cardinality({i \in 1..Len(rlog[s]) : ~rlog[s][i].res})

---------------------------------------------------------------------------
(* C1 *)

\* C1: when the history holds a clear directive, nothing the pass gathers (lines,
\* media handles) comes from an event older than the most recent clear directive,
\* and no page older than the page that holds it is fetched.
C1_NothingOlderThanClear ==
    ClearPositions # {} =>
        LET k == Min(ClearPositions)
        IN  /\ \A j \in 1..Len(ctx.fetches) : ctx.fetches[j] <= k
            /\ \A i \in Srcs(ctx.acc.messages) \cup Srcs(ctx.acc.media) : i < k
            /\ IsSome(result) =>
                 \A i \in Srcs(result[1].val.context) \cup Srcs(result[1].val.media) : i < k

\* a pass that returned one line, over a history whose clear directive has a newer
\* text event in its page and an older media event in the next page
C1_Witness ==
    /\ ctx.pc = "done"
    /\ Len(history) = 3
    /\ history[1] = TextEvent(User, "hi")
    /\ IsDirective(history[2], ".clear")
    /\ IsMedia(history[3])
    /\ cuts = {2}
    /\ Len(result[1].val.context) = 1

---------------------------------------------------------------------------
(* C5 *)

\* C5: a pass whose first page fetch fails returns an error, not a successful result.
C5_FirstFetchFailureIsError ==
    (ctx.pc = "done" /\ ctx.fetches = << >> /\ ctx.failed # << >>) => ~result[1].ok

---------------------------------------------------------------------------
(* C6 *)

\* C6: the model override returned is the name given by the most recent scanned
\* `.model` directive that names a listed model, and None when none is scanned.
C6_MostRecentValidModelWins ==
    IsSome(result) =>
        result[1].val.model =
            IF ValidModelPositions = {} THEN None
            ELSE Some(split_whitespace(Chars[history[Min(ValidModelPositions)].body])[2])

\* an unknown name newest, then `.model b`, then `.model a` oldest: b is returned
C6_Witness ==
    /\ ctx.pc = "done"
    /\ Len(history) = 3
    /\ history[1].body = ".model x"
    /\ history[2].body = ".model b"
    /\ history[3].body = ".model a"
    /\ Scanned = {1, 2, 3}
    /\ result[1].val.model = Some(<<"b">>)

---------------------------------------------------------------------------
(* C7 *)

\* C7: the lurk flag returned is false when any `.nolurk` was scanned, true when a
\* `.lurk` and no `.nolurk` was scanned, and unset otherwise.
C7_LurkResolution ==
    IsSome(result) =>
        result[1].val.lurk =
            IF \E i \in Scanned : IsDirective(history[i], ".nolurk") THEN Some(FALSE)
            ELSE IF \E i \in Scanned : IsDirective(history[i], ".lurk") THEN Some(TRUE)
            ELSE None

\* a newer `.lurk` with an older `.nolurk` resolves to false
C7_Witness ==
    /\ ctx.pc = "done"
    /\ Len(history) = 2
    /\ history[1].body = ".lurk"
    /\ history[2].body = ".nolurk"
    /\ Scanned = {1, 2}
    /\ result[1].val.lurk = Some(FALSE)

---------------------------------------------------------------------------
(* C8 *)

\* C8: the media list returned holds one handle per scanned image or file event,
\* oldest event first, however the history is paged.
C8_MediaOldestFirst ==
    IsSome(result) =>
        LET media == result[1].val.media
        IN  /\ Len(media) = Cardinality(MediaPositions)
            /\ Srcs(media) = MediaPositions
            /\ \A j \in 1..Len(media) : \A k \in 1..Len(media) :
                  j < k => media[j].src > media[k].src

\* an image and a file in different pages, both returned
C8_Witness ==
    /\ ctx.pc = "done"
    /\ Len(history) = 3
    /\ history[1].msgtype = "Image"
    /\ history[3].msgtype = "File"
    /\ cuts = {1, 2}
    /\ Len(result[1].val.media) = 2

---------------------------------------------------------------------------
(* C2 *)

\* C2: with message_limit = N, for a sender all of whose calls were made in rooms
\* within the size limit, the first N calls return false and every later one
\* true, and the sender's counter is the number of calls made, capped at N.
C2_FirstNPassThenThrottled ==
    \A s \in Senders :
        (/\ IsSome(config.message_limit)
         /\ \A i \in 1..Len(rlog[s]) : ~rlog[s][i].over) =>
            LET N == config.message_limit[1]
            IN  /\ \A i \in 1..Len(rlog[s]) : rlog[s][i].res = (i > N)
                /\ Count(GLOBAL_MESSAGES, s) = IF Len(rlog[s]) < N THEN Len(rlog[s]) ELSE N

\* N = 2: three calls returned, the third throttled, the counter still 2
C2_Witness ==
    \E s \in Senders :
        /\ config.message_limit = Some(2)
        /\ Len(rlog[s]) = 3
        /\ \A i \in 1..3 : ~rlog[s][i].over
        /\ rlog[s][3].res
        /\ GLOBAL_MESSAGES[s] = 2

---------------------------------------------------------------------------
(* C3 *)

\* C3 as stated: a rate_limit call made in a room whose active member count
\* exceeds room_size_limit never changes the rate-counter map, and returns true.
C3_OversizeRoomLeavesMapUntouched ==
    [][\A t \in Tasks :
          (/\ (task[t].pc = "rl_members" \/ InRateLimit(task[t]))
           /\ task'[t] # task[t]
           /\ Exceeds(members[task[t].room], config.room_size_limit)) =>
              /\ GLOBAL_MESSAGES' = GLOBAL_MESSAGES
              /\ task'[t].pc \notin {"rl_incr", "rl_notice"}]_vars

\* C3 amended: when the member count the call fetched (0 when the fetch failed)
\* exceeds room_size_limit, the call returns true, posts nothing and changes no
\* sender's count: all it may do to the map is insert a zero entry for its
\* sender. When the fetched count equals the limit the counter decides.
C3_OversizeRoomLeavesCountsUnchanged ==
    [][\A t \in Tasks :
          (InRateLimit(task[t]) /\ task'[t] # task[t]) =>
              /\ Exceeds(task[t].room_size, config.room_size_limit) =>
                    /\ \A s \in Senders :
                          Count(GLOBAL_MESSAGES', s) = Count(GLOBAL_MESSAGES, s)
                    /\ DOMAIN GLOBAL_MESSAGES' \subseteq
                          DOMAIN GLOBAL_MESSAGES \cup {task[t].sender}
                    /\ task'[t].pc \notin {"rl_incr", "rl_notice"}
                    /\ ~InRateLimit(task'[t]) =>
                          /\ task'[t].throttled = Some(TRUE)
                          /\ task'[t].posts = << >>
              /\ (/\ task[t].pc = "rl_check"
                  /\ config.room_size_limit = Some(task[t].room_size)) =>
                    task'[t].pc \in {"rl_incr", "rl_notice"}]_vars

\* one call turned away silently in an oversize room, its sender's entry inserted
\* at 0, and one call that passed in a room exactly at the limit
C3_Witness ==
    \E t \in Tasks : \E u \in Tasks :
        /\ task[t].pc = "done"
        /\ Exceeds(task[t].room_size, config.room_size_limit)
        /\ task[t].throttled = Some(TRUE)
        /\ task[t].posts = << >>
        /\ task[t].sender \in DOMAIN GLOBAL_MESSAGES
        /\ GLOBAL_MESSAGES[task[t].sender] = 0
        /\ task[u].pc = "done"
        /\ config.room_size_limit = Some(task[u].room_size)
        /\ task[u].throttled = Some(FALSE)

---------------------------------------------------------------------------
(* C4 *)

\* C4: in every state, for every sender, the number of rate_limit calls that
\* returned false equals the sender's counter, and the counter does not exceed
\* message_limit.
C4_CheckAndIncrementAtomic ==
    \A s \in Senders :
        /\ Passes(s) = Count(GLOBAL_MESSAGES, s)
        /\ ~Exceeds(Count(GLOBAL_MESSAGES, s), config.message_limit)

\* two calls for one sender race for the last slot: one is about to increment
\* under the lock, the other waits for the lock
C4_Witness ==
    \E t \in Tasks : \E u \in Tasks :
        /\ t # u
        /\ task[t].sender = task[u].sender
        /\ task[t].pc = "rl_incr"
        /\ task[u].pc = "rl_lock"
        /\ lock = t
        /\ config.message_limit = Some(GLOBAL_MESSAGES[task[t].sender] + 1)

---------------------------------------------------------------------------
(* C9 *)

\* C9: a task handling a conversational text event sent by the bot itself executes nothing on
\* the backend and posts nothing to the room.
C9_NoReactionToOwnEvents ==
    \A t \in Tasks :
        (task[t].kind = "text" /\ task[t].sender = Bot) =>
            task[t].execs = 0 /\ task[t].posts = << >>

---------------------------------------------------------------------------
(* C10 *)

\* C10: a conversational handler whose get_context call resolved lurk to true
\* executes nothing and posts no reply; one that passed the rate limiter for another
\* sender's event, resolved lurk to false or unset, and ended, executed one
\* generation request.
C10_LurkGatesGeneration ==
    \A t \in Tasks :
        /\ (task[t].kind = "text" /\ task[t].got_context /\ task[t].lurk = Some(TRUE)) =>
              /\ task[t].execs = 0
              /\ \A j \in 1..Len(task[t].posts) : task[t].posts[j] # "reply"
        /\ (/\ task[t].kind = "text"
            /\ task[t].pc = "done"
            /\ task[t].throttled = Some(FALSE)
            /\ task[t].sender # Bot
            /\ task[t].lurk # Some(TRUE)) => task[t].execs = 1

\* one handler ended lurking, another answered with lurk resolved to false
C10_Witness ==
    \E t \in Tasks : \E u \in Tasks :
        /\ task[t].kind = "text"
        /\ task[t].pc = "done"
        /\ task[t].got_context
        /\ task[t].lurk = Some(TRUE)
        /\ task[t].ret = "lurking"
        /\ task[u].kind = "text"
        /\ task[u].pc = "done"
        /\ task[u].lurk = Some(FALSE)
        /\ task[u].posts = <<"reply">>

---------------------------------------------------------------------------
(* C11 *)

RenameEnded(rec) == rec.kind = "rename" /\ rec.pc = "done" /\ IsSome(rec.title)

\* C11 as stated: in a rename that made its title model call and ended, the
\* topic prompt was executed, however the title stage ended.
C11_TopicStageAlwaysAttempted ==
    \A t \in Tasks : RenameEnded(task[t]) => IsSome(task[t].topic)

\* C11 amended: in a rename that made its title model call and ended, the topic
\* prompt was executed exactly when set-name was not rejected; a failed title
\* model call is followed by the topic prompt; a rejected set-name posts one
\* notice and ends the handler after one model call; a rejected set-topic posts
\* one notice.
C11_TopicStageUnlessNameRejected ==
    \A t \in Tasks :
        RenameEnded(task[t]) =>
            /\ IsSome(task[t].topic) <=> (task[t].named # Some(FALSE))
            /\ task[t].title = Some(FALSE) => (IsNone(task[t].named) /\ IsSome(task[t].topic))
            /\ task[t].named = Some(FALSE) =>
                  (task[t].posts = <<"name_notice">> /\ task[t].execs = 1)
            /\ task[t].topic = Some(TRUE) => IsSome(task[t].topic_set)
            /\ task[t].topic_set = Some(FALSE) => task[t].posts = <<"topic_notice">>

\* a rename whose title model call failed went on to the topic stage, whose
\* set-topic was rejected and reported
C11_Witness ==
    \E t \in Tasks :
        /\ RenameEnded(task[t])
        /\ task[t].title = Some(FALSE)
        /\ task[t].topic = Some(TRUE)
        /\ task[t].topic_set = Some(FALSE)
        /\ task[t].posts = <<"topic_notice">>

---------------------------------------------------------------------------
(* C12 *)

\* C12: a handler that ended after one of its backend execute calls failed has
\* posted an error notice to the room.
C12_FailedExecutePostsNotice ==
    \A t \in Tasks :
        (task[t].pc = "done" /\ task[t].exec_errs > 0) =>
            \E j \in 1..Len(task[t].posts) : task[t].posts[j] = "error_notice"

---------------------------------------------------------------------------
(* C13 *)

\* C13: a conversational handler for another sender's event that passed the
\* rate limiter and got a context whose lurk flag is not true executes at most
\* once and posts at most once; when it has ended it executed exactly once and
\* posted exactly one message: the reply when execute succeeded, the error
\* notice (and no reply) when it failed.
C13_OneExecuteOnePost ==
    \A t \in Tasks :
        (/\ task[t].kind = "text"
         /\ task[t].sender # Bot
         /\ task[t].throttled = Some(FALSE)
         /\ task[t].got_context
         /\ task[t].lurk # Some(TRUE)) =>
            /\ task[t].execs <= 1
            /\ Len(task[t].posts) <= 1
            /\ task[t].pc = "done" =>
                  /\ task[t].execs = 1
                  /\ task[t].posts =
                        IF task[t].exec_errs = 0 THEN <<"reply">> ELSE <<"error_notice">>

\* a handler whose only execute failed ended with the error notice as its only post
C13_Witness ==
    \E t \in Tasks :
        /\ task[t].kind = "text"
        /\ task[t].pc = "done"
        /\ task[t].sender # Bot
        /\ task[t].throttled = Some(FALSE)
        /\ task[t].lurk = None
        /\ task[t].execs = 1
        /\ task[t].exec_errs = 1
        /\ task[t].posts = <<"error_notice">>

---------------------------------------------------------------------------
(* C15 *)

\* the positions of a handler between its get_context call and its last
\* backend call
Generating(rec) ==
    rec.pc \in {"get_context", "execute", "reply", "error_notice",
                "send_get_context", "send_execute", "send_response",
                "rename_get_context", "title_execute", "set_name", "name_notice",
                "topic_execute", "set_topic", "topic_notice"}

\* C15: a task of any handler that executed on the backend, or is on its way
\* to, made a rate_limit call for its sender that returned false (the last
\* call logged for that sender); a task whose rate_limit call returned true
\* executes nothing.
C15_GenerationGatedByRateLimit ==
    \A t \in CmdTasks :
        /\ (task[t].execs > 0 \/ Generating(task[t])) =>
              /\ task[t].throttled = Some(FALSE)
              /\ rlog[task[t].sender] # << >>
              /\ ~rlog[task[t].sender][Len(rlog[task[t].sender])].res
        /\ task[t].throttled = Some(TRUE) =>
              /\ task[t].execs = 0
              /\ ~Generating(task[t])
              /\ rlog[task[t].sender][Len(rlog[task[t].sender])].res

\* a rename that passed the rate limiter ran both of its model calls, after a
\* throttled call of the same sender
C15_Witness ==
    \E t \in CmdTasks :
        /\ task[t].kind = "rename"
        /\ task[t].pc = "done"
        /\ task[t].throttled = Some(FALSE)
        /\ task[t].execs = 2
        /\ Len(rlog[task[t].sender]) = 2
        /\ rlog[task[t].sender][1].res
        /\ ~rlog[task[t].sender][2].res

---------------------------------------------------------------------------
(* C14 *)

\* the positions at which a task waits for an `.await` to complete
Suspended(rec) ==
    rec.pc \in {"receipt", "rl_members", "rl_notice", "get_context", "reply",
                "error_notice", "send_get_context", "send_response",
                "rename_get_context", "set_name", "name_notice", "set_topic",
                "topic_notice"}

\* the positions at which a task next locks the configuration mutex
LocksConfig(rec) ==
    rec.pc \in {"rl_message_limit", "rl_room_size_limit", "execute", "send_execute",
                "title_execute", "topic_execute"}

\* the task waits for a mutex that another task holds
Blocked(t) ==
    \/ task[t].pc = "rl_lock" /\ lock # 0
    \/ LocksConfig(task[t]) /\ config_lock # 0

\* C14: a task that is suspended at an await, or is over, holds neither the
\* rate-counter mutex nor the configuration mutex; the holder of a mutex is a
\* task that runs without waiting for anything until it releases it; so a
\* task that waits for a mutex holds none, and the tasks are never all waiting
\* for a mutex that is held.
C14_NoLockHeldAtSuspension ==
    /\ \A t \in Tasks :
          (Suspended(task[t]) \/ Finished(t)) => (lock # t /\ config_lock # t)
    /\ lock # 0 => task[lock].pc \in {"rl_check", "rl_incr"}
    /\ config_lock # 0 =>
          task[config_lock].pc \in {"rl_message_limit_locked", "rl_room_size_limit_locked"}
    /\ ~(\A t \in Tasks : Blocked(t))
    /\ \A t \in Tasks : Blocked(t) => (lock # t /\ config_lock # t)

\* one task waits for the send of its limit notice while the other holds the
\* rate-counter mutex
C14_Witness ==
    \E t \in Tasks : \E u \in Tasks :
        /\ task[t].pc = "rl_notice"
        /\ task[u].pc = "rl_check"
        /\ lock = u

---------------------------------------------------------------------------
(* C16 *)

\* the limit notice as the room shows it, for each limit
LimitNoticeTexts ==
    { ".error: you have used up your message limit of 0 messages.",
      ".error: you have used up your message limit of 1 messages.",
      ".error: you have used up your message limit of 2 messages.",
      ".error: you have used up your message limit of 18446744073709551615 messages." }

IsLimitNotice(p) == p \in LimitNoticeTexts

\* C16: a task inside rate_limit has posted nothing; once its call returned,
\* the limit notices among its posts are exactly one notice stating the
\* configured limit when the call returned true for a fetched member count within
\* room_size_limit, the sender's counter then standing at the limit, and none
\* when the call returned false or rejected the room for its size.
C16_NoticeIffLimitReached ==
    \A t \in Tasks :
        /\ (task[t].pc = "rl_members" \/ InRateLimit(task[t])) => task[t].posts = << >>
        /\ IsSome(task[t].throttled) =>
              IF task[t].throttled[1] /\ ~Exceeds(task[t].room_size, config.room_size_limit)
              THEN /\ IsSome(config.message_limit)
                   /\ Count(GLOBAL_MESSAGES, task[t].sender) = config.message_limit[1]
                   /\ SelectSeq(task[t].posts, IsLimitNotice) =
                         << ".error: you have used up your message limit of "
                              \o ToString(config.message_limit[1]) \o " messages." >>
              ELSE SelectSeq(task[t].posts, IsLimitNotice) = << >>

\* with the sender's counter at the limit of 1, one call was rejected silently
\* for the room's size and another posted the notice
C16_Witness ==
    \E t \in Tasks : \E u \in Tasks :
        /\ config.message_limit = Some(1)
        /\ task[t].sender = task[u].sender
        /\ Count(GLOBAL_MESSAGES, task[t].sender) = 1
        /\ task[t].pc = "done"
        /\ task[t].throttled = Some(TRUE)
        /\ Exceeds(task[t].room_size, config.room_size_limit)
        /\ task[t].posts = << >>
        /\ task[u].pc = "done"
        /\ task[u].throttled = Some(TRUE)
        /\ task[u].posts = <<".error: you have used up your message limit of 1 messages.">>

---------------------------------------------------------------------------
(* C17 *)

\* the step completes a rate_limit call of task t
Returns(t) ==
    /\ InRateLimit(task[t])
    /\ ~InRateLimit(task'[t])
    /\ task'[t].pc # "panicked"

\* C17: in every step no sender's counter decreases and no entry is removed;
\* a counter changes only by one, in a step of a task of that sender; and a
\* call that returns for a fetched member count within room_size_limit returns
\* true exactly when the sender's passing calls so far, in whatever rooms,
\* number message_limit.
C17_CounterProcessWidePerSender ==
    [][/\ DOMAIN GLOBAL_MESSAGES \subseteq DOMAIN GLOBAL_MESSAGES'
       /\ \A s \in Senders :
             /\ Count(GLOBAL_MESSAGES', s) >= Count(GLOBAL_MESSAGES, s)
             /\ Count(GLOBAL_MESSAGES', s) # Count(GLOBAL_MESSAGES, s) =>
                   /\ Count(GLOBAL_MESSAGES', s) = Count(GLOBAL_MESSAGES, s) + 1
                   /\ \E t \in Tasks : task[t].sender = s /\ task'[t] # task[t]
       /\ \A t \in Tasks :
             (Returns(t) /\ ~Exceeds(task[t].room_size, config.room_size_limit)) =>
                 task'[t].throttled =
                     Some(IF IsSome(config.message_limit)
                          THEN Passes(task[t].sender) >= config.message_limit[1]
                          ELSE FALSE)]_vars

\* with a limit of 2 and no room size limit, a sender passed in one room and
\* is throttled in the other after two passing calls
C17_Witness ==
    \E t \in Tasks : \E u \in Tasks :
        /\ config = [message_limit |-> Some(2), room_size_limit |-> None]
        /\ task[t].sender = task[u].sender
        /\ task[t].room # task[u].room
        /\ task[t].pc = "done" /\ task[t].throttled = Some(FALSE)
        /\ task[u].pc = "done" /\ task[u].throttled = Some(TRUE)
        /\ Len(rlog[task[t].sender]) = 3
        /\ Count(GLOBAL_MESSAGES, task[t].sender) = 2

---------------------------------------------------------------------------
(* C19 *)

\* a text event that is not a directive
IsPlainText(ev) == ev.msgtype = "Text" /\ ~is_command(Chars[ev.body])

\* the lurk state resolved from the directives newer than position i
LurkBefore(i) ==
    IF \E j \in 1..(i - 1) : IsDirective(history[j], ".nolurk") THEN Some(FALSE)
    ELSE IF \E j \in 1..(i - 1) : IsDirective(history[j], ".lurk") THEN Some(TRUE)
    ELSE None

\* C19: at every point of the pass, and in its result, a scanned non-directive
\* text event has a line exactly when the lurk state resolved from the
\* directives newer than it is not true.
C19_PlainTextRecordedUnlessLurking ==
    \A i \in Scanned :
        IsPlainText(history[i]) =>
            /\ i \in Srcs(ctx.acc.messages) <=> (LurkBefore(i) # Some(TRUE))
            /\ IsSome(result) =>
                  (i \in Srcs(result[1].val.context) <=> (LurkBefore(i) # Some(TRUE)))

\* a text event between a newer `.lurk` and an older `.nolurk` is missing from
\* the result although lurk resolved to false
C19_Witness ==
    /\ ctx.pc = "done"
    /\ Len(history) = 3
    /\ history[1].body = ".lurk"
    /\ history[2] = TextEvent(User, "hi")
    /\ history[3].body = ".nolurk"
    /\ Scanned = {1, 2, 3}
    /\ result[1].val.lurk = Some(FALSE)
    /\ result[1].val.context = << >>

---------------------------------------------------------------------------
(* C20 *)

\* the scanned event at position i contributes a line
Records(i) ==
    LET ev == history[i]
    IN  CASE ev.msgtype = "Text"   -> IsPlainText(ev) /\ LurkBefore(i) # Some(TRUE)
          [] ev.msgtype = "Notice" -> ev.sender # Bot
          [] OTHER                 -> TRUE

\* the positions a pass without a failed fetch scans: up to the most recent
\* clear directive, or the whole history
ScanEnd == IF ClearPositions = {} THEN Len(history) ELSE Min(ClearPositions)

\* C20: the transcript returned holds one line per recorded scanned event,
\* oldest event first, each text line with the event's body and the prefix
\* `ASSISTANT: ` when the bot sent it and `USER: ` otherwise; a pass without a
\* failed fetch scans the same events however the history is paged.
C20_TranscriptOldestFirst ==
    IsSome(result) =>
        LET context == result[1].val.context
        IN  /\ Srcs(context) = {i \in Scanned : Records(i)}
            /\ \A j \in 1..Len(context) : \A k \in 1..Len(context) :
                  j < k => context[j].src > context[k].src
            /\ \A j \in 1..Len(context) :
                  LET ev == history[context[j].src]
                  IN  /\ context[j].body = ev.body
                      /\ ev.msgtype = "Text" =>
                            context[j].label =
                                IF ev.sender = Bot THEN "ASSISTANT: " ELSE "USER: "
            /\ ctx.failed = << >> => Scanned = 1..ScanEnd

\* three text events in three pages, the bot's between two of the user's
C20_Witness ==
    /\ ctx.pc = "done"
    /\ Len(history) = 3
    /\ cuts = {1, 2}
    /\ history[1] = TextEvent(User, "hi")
    /\ history[2] = TextEvent(Bot, "hi")
    /\ history[3] = TextEvent(User, "hi")
    /\ Len(result[1].val.context) = 3
    /\ result[1].val.context[1].src = 3
    /\ result[1].val.context[2].label = "ASSISTANT: "

---------------------------------------------------------------------------
(* C18 *)

\* the positions of the double-quote characters of the response
Quotes == {i \in 1..Len(response) : response[i] = Quote}

\* C18: called with no maximum length, clean_summary_response returns the text
\* between the first double-quote character of the response and the next one
\* after it when the response has two double-quote characters, and the whole
\* response otherwise.
C18_FirstQuotedOrVerbatim ==
    (IsSome(cleaned) /\ max_length = None) =>
        cleaned[1] =
            IF Cardinality(Quotes) >= 2
            THEN SubSeq(response, Min(Quotes) + 1, Min(Quotes \ {Min(Quotes)}) - 1)
            ELSE response

\* a response with three double-quote characters, the first two adjacent, cleans
\* to the empty string
C18_Witness ==
    /\ response = <<Quote, Quote, "a", Quote>>
    /\ max_length = None
    /\ cleaned = Some(<< >>)

---------------------------------------------------------------------------
(* C21 *)

\* C21: a conversational handler whose get_context call had a history page
\* fetch fail executes nothing on the backend and posts nothing; when it has
\* ended, it ended with "could not get context".
C21_FetchFailureIsNoContext ==
    \A t \in Tasks :
        (task[t].kind = "text" /\ task[t].got_context /\ task[t].fetch_failed) =>
            /\ task[t].execs = 0
            /\ task[t].posts = << >>
            /\ task[t].pc = "done" => task[t].ret = "could not get context"

---------------------------------------------------------------------------
(* C24 *)

\* the tasks of sender s whose rate_limit call returned false
PassedTasks(s) == {t \in Tasks : task[t].sender = s /\ task[t].throttled = Some(FALSE)}

\* C24: every conversational event that passed rate_limit is counted once in
\* its sender's counter, also when the handler then ended without executing or
\* posting because the event is the bot's own or the lurk flag resolved to
\* true: the counter equals the number of the sender's passing calls and is at
\* least the number of its tasks that passed.
C24_ChargedBeforeSelfAndLurk ==
    \A t \in Tasks :
        (task[t].kind = "text" /\ task[t].throttled = Some(FALSE)) =>
            /\ Count(GLOBAL_MESSAGES, task[t].sender) = Passes(task[t].sender)
            /\ Count(GLOBAL_MESSAGES, task[t].sender) >=
                  Cardinality(PassedTasks(task[t].sender))
            /\ (task[t].pc = "done" /\ task[t].sender = Bot) =>
                  /\ task[t].ret = "not responding to myself"
                  /\ task[t].execs = 0
                  /\ task[t].posts = << >>

\* the bot's own event and a lurking user's event both ended without a
\* generation request, each counted once
C24_Witness ==
    \E t \in Tasks : \E u \in Tasks :
        /\ task[t].kind = "text" /\ task[u].kind = "text"
        /\ task[t].pc = "done" /\ task[t].sender = Bot
        /\ task[t].ret = "not responding to myself"
        /\ task[u].pc = "done" /\ task[u].sender = User
        /\ task[u].ret = "lurking"
        /\ task[u].execs = 0
        /\ GLOBAL_MESSAGES = (Bot :> 1 @@ User :> 1)

---------------------------------------------------------------------------
(* C22 *)

\* the number of pages the history is served in
Pages == Cardinality(cuts) + 1

\* fetches made so far, failed ones included
Attempts == Len(ctx.fetches) + Len(ctx.failed)

\* the order in which a pass goes through its positions
Rank(pc) ==
    CASE pc = "scan"  -> 0
      [] pc = "fetch" -> 1
      [] pc = "ret"   -> 2
      [] OTHER        -> 3

\* the fetches of a pass: the first without a cursor, each later one at the
\* cursor the page before returned; the pass ends only at a failed fetch, a
\* clear directive or a page without a next cursor, and only then; it is never
\* stuck before it returned or panicked.
C22_FetchesBackward ==
    LET f == ctx.fetches
    IN  /\ Attempts = 0 => ctx.options = None
        /\ f # << >> => f[1] = 1
        /\ \A j \in 1..(Len(f) - 1) :
              /\ {c \in cuts : c >= f[j]} # {}
              /\ f[j + 1] = Min({c \in cuts : c >= f[j]}) + 1
        /\ Len(ctx.failed) <= 1
        /\ Attempts <= Pages
        /\ ctx.pc = "fetch" =>
              /\ ctx.failed = << >>
              /\ \A i \in Scanned : ~IsDirective(history[i], ".clear")
              /\ f # << >> => {c \in cuts : c >= f[Len(f)]} # {}
        /\ ctx.pc \in {"ret", "done"} =>
              \/ ctx.failed # << >>
              \/ \E i \in Scanned : IsDirective(history[i], ".clear")
              \/ f # << >> /\ {c \in cuts : c >= f[Len(f)]} = {}
        /\ (ctx.pc = "done") <=> IsSome(result)
        /\ ctx.pc = "panicked" => ctx.pos \in 1..Len(history) /\ IsMedia(history[ctx.pos])
        /\ ctx.pc \notin {"done", "panicked"} => ENABLED NextCtx

\* every step of a pass makes a fetch, or else scans an event, or else moves on
\* in the order scan, fetch, return
C22_Progress ==
    LET attempts == Len(ctx'.fetches) + Len(ctx'.failed)
    IN  \/ attempts > Attempts
        \/ attempts = Attempts /\ ctx'.pos > ctx.pos
        \/ attempts = Attempts /\ ctx'.pos = ctx.pos /\ Rank(ctx'.pc) > Rank(ctx.pc)

\* C22: a pass fetches pages strictly backward, the first fetch without a
\* cursor and each later one at the cursor of the page just processed, so each
\* page at most once and at most as many fetches as there are pages; it stops
\* at a page without a next cursor, a failed fetch or a clear directive; every
\* step makes progress in a bounded measure and the pass is never stuck, so it
\* terminates, with a result unless a media download panicked.
C22_BackwardPagingTerminates == []C22_FetchesBackward /\ [][C22_Progress]_vars

\* a history of three pages, fetched in three fetches, returned
C22_Witness ==
    /\ ctx.pc = "done"
    /\ Len(history) = 3
    /\ cuts = {1, 2}
    /\ ctx.fetches = <<1, 2, 3>>
    /\ ctx.failed = << >>
    /\ IsSome(result)

---------------------------------------------------------------------------
(* C23 *)

\* the events newer than the most recent clear directive that the pass scanned
NewerThanClear == {i \in 1..(Min(ClearPositions) - 1) : i < ctx.pos}

\* the history from its newest event to its most recent clear directive
UpToClear == SubSeq(history, 1, Min(ClearPositions))

\* C23: when the history holds a clear directive, the result of a pass is
\* determined by the events newer than the most recent one: the model override
\* is that of the newest valid `.model` among them, the lurk flag is resolved
\* from the `.lurk` / `.nolurk` among them, the transcript and the media hold
\* what those events record, and the whole result is a result of the pass over
\* the history cut off at that clear directive, so histories that agree from
\* the clear directive onward have the same results and older directives have
\* no effect.
C23_ClearResetsState ==
    (IsSome(result) /\ ClearPositions # {}) =>
        LET val == result[1].val
            models == {i \in NewerThanClear : NamesModel(history[i])}
        IN  /\ val.model =
                  IF models = {} THEN None
                  ELSE Some(split_whitespace(Chars[history[Min(models)].body])[2])
            /\ val.lurk =
                  IF \E i \in NewerThanClear : IsDirective(history[i], ".nolurk")
                  THEN Some(FALSE)
                  ELSE IF \E i \in NewerThanClear : IsDirective(history[i], ".lurk")
                  THEN Some(TRUE)
                  ELSE None
            /\ Srcs(val.context) = {i \in NewerThanClear : Records(i)}
            /\ Srcs(val.media) = {i \in NewerThanClear : IsMedia(history[i])}
            /\ ctx.failed = << >> => NewerThanClear = 1..(Min(ClearPositions) - 1)
            /\ \E o \in Pass(UpToClear, cuts \cap (1..(Min(ClearPositions) - 1)),
                             None, CtxLocals) :
                  ~o.panicked /\ o.val = val

\* a text event, then a clear directive, then an older `.model a`: the pass
\* returns the one line and no model override
C23_Witness ==
    /\ ctx.pc = "done"
    /\ ctx.failed = << >>
    /\ Len(history) = 3
    /\ history[1] = TextEvent(User, "hi")
    /\ history[2].body = ".clear"
    /\ history[3].body = ".model a"
    /\ result[1].val.model = None
    /\ Len(result[1].val.context) = 1

---------------------------------------------------------------------------
(* C25 *)

\* the number of lines of a transcript that come from the event at position i
LinesFrom(seq, i) == Cardinality({j \in 1..Len(seq) : seq[j].src = i})

\* C25: at every point of the pass, and in its result, a scanned notice event
\* the bot sent has no line in the transcript and a scanned notice event of any
\* other sender has exactly one.
C25_OwnNoticesNeverFedBack ==
    \A i \in Scanned :
        history[i].msgtype = "Notice" =>
            LET n == IF history[i].sender = Bot THEN 0 ELSE 1
            IN  /\ LinesFrom(ctx.acc.messages, i) = n
                /\ IsSome(result) => LinesFrom(result[1].val.context, i) = n

\* a notice of the bot and a notice of the user, both scanned: one line returned
C25_Witness ==
    /\ ctx.pc = "done"
    /\ Len(history) = 2
    /\ Scanned = {1, 2}
    /\ history[1].msgtype = "Notice" /\ history[1].sender = Bot
    /\ history[2].msgtype = "Notice" /\ history[2].sender = User
    /\ Len(result[1].val.context) = 1
    /\ result[1].val.context[1].src = 2

===========================================================================
